---- MODULE Spec2Model ----
(***************************************************************************)
(* The exam-session state machine of the practice-exam simulator.          *)
(*                                                                         *)
(*   app_2.0.py : random exams drawn from the whole catalog, a used-       *)
(*                question pool and an exam history, both persisted as     *)
(*                JSON files (exam_history.json, used_questions.json).     *)
(*   app.py     : one in-memory session per part of the catalog, with      *)
(*                flags, query-parameter navigation, grading and retake.   *)
(*                                                                         *)
(* Both programs are Streamlit scripts: every user interaction executes    *)
(* the script from its first line (one "script run"), and st.rerun() ends  *)
(* the run and queues another one.  An action of this module is one script *)
(* run: the code every run executes before it reaches the widget that was  *)
(* used, followed by that widget's handler and, when the handler calls     *)
(* st.rerun(), by the run it queues (in which no widget is used).          *)
(***************************************************************************)
EXTENDS Integers, Sequences, FiniteSets, TLC

\* ------------------------------------------------------------------------
\* Bounds of the model
\* ------------------------------------------------------------------------

\* Stand-in for the exam size 65 of app_2.0.py (lines 324-325): an exam takes
\* ExamSize questions when that many remain, else all that remain.
ExamSize == 2

\* Start New Practice Test is offered while the history holds fewer exams.
MaxExams == 2

\* The number of times the server process is restarted in one behaviour.
MaxRestarts == 1

\* The 'question' query parameter of a URL is one of 0..MaxQueryNumber.
MaxQueryNumber == 3

\* The number of writes of a store that fail in one behaviour.
MaxSaveErrors == 1

\* ------------------------------------------------------------------------
\* Values
\* ------------------------------------------------------------------------

\* A question record of questions_by_part.json without an 'id' key.
NoId == 0

\* 'current_exam' not in st.session_state.
NoExam == 0

\* Python's None (the score of an exam that is not completed).
None == <<>>

\* A file that does not exist (os.path.exists is False).
NoFile == <<>>

\* A file that exists but holds no complete JSON document: open(..., 'w')
\* emptied it and json.dump did not finish writing.
TornFile == <<"torn", "file">>

\* A URL without the query parameters 'part' and 'question'.
NoParams == <<>>

\* The browser sessions, each with a st.session_state of its own; User is the
\* one that is used in Spec.
Browsers == {1, 2}
User == {1}

Min(a, b) == IF a < b THEN a ELSE b

Range(s) == {s[i] : i \in DOMAIN s}

RECURSIVE SetToSeq(_)
\* list(a set of integers): its elements, each once (in increasing order).
SetToSeq(S) ==
    IF S = {} THEN <<>>
    ELSE LET m == CHOOSE x \in S : \A y \in S : x <= y
         IN  <<m>> \o SetToSeq(S \ {m})

\* ------------------------------------------------------------------------
\* The question catalog (questions_by_part.json): an ordered mapping from
\* part name to the list of the part's question records.  The option texts
\* are left out: a question's options are its option letters, in order.
\* ------------------------------------------------------------------------

Q(id, n, opts, ca) ==
    [id |-> id, question_number |-> n, options |-> opts, correct_answer |-> ca]

\* Two parts; the last record carries no 'id' and is given the free id 3.
CatalogWithIds ==
    << [name |-> "A", questions |-> << Q(1, 1, <<"A", "B">>, <<"B">>),
                                       Q(2, 2, <<"A">>, <<"A">>) >>],
       [name |-> "B", questions |-> << Q(NoId, 1, <<"A">>, <<"A">>) >>] >>

\* One multi-answer question, without an 'id'.
CatalogWithoutIds ==
    << [name |-> "A", questions |-> << Q(NoId, 1, <<"A", "B">>, <<"B", "A">>) >>] >>

\* A mix: the first record carries id 2, the second carries none (and has
\* no correct answer).
CatalogMixed ==
    << [name |-> "A", questions |-> << Q(2, 1, <<"A">>, <<"A">>),
                                       Q(NoId, 2, <<"A">>, <<>>) >>] >>

Catalogs == {CatalogWithIds, CatalogWithoutIds, CatalogMixed}

\* The option letters of the catalogs.
Letters == {"A", "B"}

VARIABLES
    questions_by_part,   \* the catalog file, read by every script run
    \* ---- app_2.0.py ----
    loaded,              \* [browser -> BOOLEAN]: 'exam_history' in st.session_state
    exam_history,        \* [browser -> [exam id -> exam session]]
    used_question_ids,   \* [browser -> set of question ids]
    current_exam,        \* [browser -> exam id or NoExam]
    history_file,        \* exam_history.json: NoFile or <<contents>>
    used_file,           \* used_questions.json: NoFile or <<contents>>
    pool_epoch,          \* [browser -> [exam id -> number of pool resets before it]]
    resets,              \* [browser -> number of pool resets of the session]
    restarts,            \* number of process restarts so far
    save_errors,         \* [history, used]: st.error reports of the two save functions
    \* ---- app.py ----
    session_state,       \* [part name -> the part's session], the parts initialised
    query_params,        \* st.query_params: NoParams or [part, question]
    user_selection       \* [<<part, question_number>> -> the letters the user last
                         \*  left selected in the question's widgets]

vars2 == <<loaded, exam_history, used_question_ids, current_exam,
           history_file, used_file, pool_epoch, resets, restarts, save_errors>>

varsV1 == <<session_state, query_params, user_selection>>

vars == <<questions_by_part, vars2, varsV1>>

\* ------------------------------------------------------------------------
\* app_2.0.py: the catalog as main() combines it
\* ------------------------------------------------------------------------

RECURSIVE Flatten(_)
\* The question records of all parts in file order, each with its origin.
Flatten(parts) ==
    IF parts = <<>> THEN <<>>
    ELSE LET p == Head(parts)
         IN  [i \in 1..Len(p.questions) |->
                [id |-> p.questions[i].id,
                 origin |-> <<p.name, i>>,
                 question_number |-> p.questions[i].question_number,
                 options |-> p.questions[i].options,
                 correct_answer |-> p.questions[i].correct_answer]]
             \o Flatten(Tail(parts))

\* A record without 'id' gets len(all_questions) + 1, the number of records
\* appended before it plus one.
AssignedId(q, k) == IF q.id = NoId THEN k ELSE q.id

all_questions ==
    LET flat == Flatten(questions_by_part)
    IN  [k \in 1..Len(flat) |-> [flat[k] EXCEPT !.id = AssignedId(flat[k], k)]]

Ids(qs) == {qs[i].id : i \in DOMAIN qs}

\* remaining_questions = [q for q in all_questions if q['id'] not in used]
Remaining(used) == SelectSeq(all_questions, LAMBDA q : q.id \notin used)

\* ------------------------------------------------------------------------
\* app_2.0.py: persistence.  json.dump writes every dict key as a string
\* and json.load returns string keys, so a ledger key is either the int a
\* script run wrote or the str a load returned.
\* ------------------------------------------------------------------------

IntKey(p) == <<"int", p>>
StrKey(p) == <<"str", p>>

\* json.dump of the ledger: an int key p is written as "p".  A ledger that
\* holds both "p" (loaded) and p (written since) is dumped with the name "p"
\* twice, in insertion order, and json.load keeps the last: the int key's.
DumpAnswers(answers) ==
    [k \in {StrKey(j[2]) : j \in DOMAIN answers} |->
        IF IntKey(k[2]) \in DOMAIN answers THEN answers[IntKey(k[2])]
        ELSE answers[k]]

\* ex_copy of save_exam_history as json.dump writes it.
DumpExam(ex) ==
    [ex EXCEPT !.answered_questions = SetToSeq(ex.answered_questions),
               !.answers = DumpAnswers(ex.answers)]

\* The contents of exam_history.json after save_exam_history(history).
save_exam_history(history) ==
    << [eid \in DOMAIN history |-> DumpExam(history[eid])] >>

\* load_exam_history(): {} without the file and when json.load raises (the
\* error is reported, lines 218-220), else the file's contents with every
\* answered_questions list turned back into a set.
load_exam_history(file) ==
    IF file = NoFile \/ file = TornFile THEN <<>>
    ELSE [eid \in DOMAIN file[1] |->
            [file[1][eid] EXCEPT !.answered_questions = Range(file[1][eid].answered_questions)]]

\* The contents of used_questions.json after save_used_question_ids(used).
save_used_question_ids(used) == << SetToSeq(used) >>

\* load_used_question_ids(): set() without the file and when json.load raises.
load_used_question_ids(file) ==
    IF file = NoFile \/ file = TornFile THEN {} ELSE Range(file[1])

\* What open(name, 'w') followed by json.dump leaves in a file that held
\* `file`: the document; nothing whole, when the dump raises after the open
\* emptied the file; the old contents, when the open itself raises.
WriteOutcomes == {"written", "torn", "refused"}

Write(file, document, outcome) ==
    CASE outcome = "written" -> document
      [] outcome = "torn"    -> TornFile
      [] outcome = "refused" -> file

\* The st.error reports of a save function after one more call of it.
Reported(errors, outcome) == IF outcome = "written" THEN errors ELSE errors + 1

\* Mutant of MemoryAfterSave: the session keeps what a load of the written
\* document returns.
MemoryAfterSaveReloaded(history) == load_exam_history(save_exam_history(history))

\* The history in st.session_state after save_exam_history(history): the
\* function changes ex.copy(), never the session itself (lines 198-202).
MemoryAfterSave(history) == history

\* ------------------------------------------------------------------------
\* app_2.0.py: what every script run does before any widget is handled
\* (main, lines 249-301): load the two stores on the session's first run,
\* then reset the used pool when no question remains.
\* ------------------------------------------------------------------------

TopHistory(b) ==
    IF loaded[b] THEN exam_history[b] ELSE load_exam_history(history_file)

TopUsedLoaded(b) ==
    IF loaded[b] THEN used_question_ids[b] ELSE load_used_question_ids(used_file)

\* Mutant of PoolExhausted: a pool that cannot fill a whole paper counts as
\* exhausted.
PoolExhaustedEarly(used) == Len(Remaining(used)) < ExamSize

\* if not remaining_questions (line 294)
PoolExhausted(used) == Len(Remaining(used)) = 0

\* Mutant of ResetIfExhausted: an exhausted pool is kept.
ResetNever(used) == used

\* Lines 294-301: with no question remaining the used pool is reset to the
\* empty set (and saved).
ResetIfExhausted(used) == IF PoolExhausted(used) THEN {} ELSE used

TopResets(b) == PoolExhausted(TopUsedLoaded(b))

TopUsed(b) == ResetIfExhausted(TopUsedLoaded(b))

TopUsedFile(b) ==
    IF TopResets(b) THEN save_used_question_ids(TopUsed(b)) ELSE used_file

\* remaining_questions as the Start handler finds it (lines 289, 300).
TopRemaining(b) ==
    IF TopResets(b) THEN all_questions ELSE Remaining(TopUsedLoaded(b))

TopResetCount(b) == IF TopResets(b) THEN resets[b] + 1 ELSE resets[b]

\* ------------------------------------------------------------------------
\* app_2.0.py: dictionaries and the helpers of the handlers
\* ------------------------------------------------------------------------

\* Mutant of Put: one list object is the value of every key of the dict.
PutShared(d, k, v) == [x \in DOMAIN d \cup {k} |-> v]

\* d[k] = v on a dict: a new key is added, an existing one overwritten.
Put(d, k, v) == [x \in DOMAIN d \cup {k} |-> IF x = k THEN v ELSE d[x]]

\* d.get(k, [])
Get(d, k) == IF k \in DOMAIN d THEN d[k] ELSE <<>>

\* random.sample(population, k): k elements at distinct places, in any order.
Sample(population, k) ==
    { [i \in 1..k |-> population[f[i]]] :
        f \in {g \in [1..k -> DOMAIN population] :
                 \A i, j \in 1..k : i # j => g[i] # g[j]} }

\* Mutant of ExamQuestions: the exam takes every remaining question.
ExamQuestionsUncapped(remaining_questions) == {remaining_questions}

\* The papers a new exam can get (lines 323-328).
ExamQuestions(remaining_questions) ==
    IF Len(remaining_questions) >= ExamSize
    THEN Sample(remaining_questions, ExamSize)
    ELSE {remaining_questions}

\* Mutant of AssignNumbers: the questions keep the numbers of the catalog.
AssignNumbersOfCatalog(exam_questions) == exam_questions

\* question['question_number'] = idx + 1 (lines 331-332)
AssignNumbers(exam_questions) ==
    [i \in DOMAIN exam_questions |->
        [exam_questions[i] EXCEPT !.question_number = i]]

\* Mutant of MarkUsed: the questions of the new exam are not recorded.
MarkUsedNothing(used, exam_questions) == used

\* st.session_state['used_question_ids'].update(q['id'] for q in exam_questions)
MarkUsed(used, exam_questions) == used \cup Ids(exam_questions)

\* Mutant of NewExamId: the exams in progress are not counted.
NewExamIdOfCompleted(history) ==
    Cardinality({eid \in DOMAIN history : history[eid].completed}) + 1

\* exam_id = f"Exam_{len(exam_history) + 1}"; the id Exam_k is the number k.
NewExamId(history) == Cardinality(DOMAIN history) + 1

\* The exam_session dict of lines 339-347.
NewSession(exam_id, exam_questions) ==
    [exam_id |-> exam_id,
     questions |-> exam_questions,
     current_question |-> 0,
     answers |-> <<>>,
     answered_questions |-> {},
     completed |-> FALSE,
     score |-> None]

\* The lists the checkboxes of a multi-answer question can produce: the
\* checked option letters in option order.
Selections(options) ==
    { SelectSeq(options, LAMBDA k : k \in S) : S \in SUBSET Range(options) }

\* Mutant of Answered: the ledger is not consulted, the answer widgets are
\* always shown.
AnsweredNever(ex, question_number) == FALSE

\* question_number in exam_session['answers'] (lines 77, 115): the verdict is
\* shown in place of the answer widgets.
Answered(ex, question_number) == IntKey(question_number) \in DOMAIN ex.answers

\* Mutant of RecordAnswer: only a correct answer marks the position answered.
RecordAnswerIfCorrect(ex, question_number, selected) ==
    [ex EXCEPT !.answers = Put(ex.answers, IntKey(question_number), selected),
               !.answered_questions =
                   IF Range(selected) = Range(ex.questions[question_number].correct_answer)
                   THEN ex.answered_questions \cup {question_number}
                   ELSE ex.answered_questions]

\* exam_session['answers'][question_number] = selected;
\* exam_session['answered_questions'].add(question_number)
RecordAnswer(ex, question_number, selected) ==
    [ex EXCEPT !.answers = Put(ex.answers, IntKey(question_number), selected),
               !.answered_questions = ex.answered_questions \cup {question_number}]

\* The verdict display_question shows for the letters recorded at a position:
\* set(selected_options) == set(correct_answer) for a question with several
\* correct letters (lines 90, 107), selected_option in correct_answer
\* otherwise (lines 130, 141), selected_option being the first recorded letter.
ImmediateVerdict(question, selected) ==
    IF Len(question.correct_answer) > 1
    THEN Range(selected) = Range(question.correct_answer)
    ELSE selected[1] \in Range(question.correct_answer)

\* set(selected_options) == set(correct_answer) at position q_num (line 390)
GradedCorrect(ex, q_num) ==
    Range(Get(ex.answers, IntKey(q_num))) = Range(ex.questions[q_num].correct_answer)

\* correct_count of lines 385-391
CorrectCount(ex) ==
    Cardinality({q_num \in 1..Len(ex.questions) : GradedCorrect(ex, q_num)})

\* correct_count / total_questions * 100, kept exact as <<numerator, denominator>>
Percentage(correct_count, total_questions) == <<100 * correct_count, total_questions>>

\* Mutant of Graded: the exam is completed without a score.
GradedWithoutScore(ex) == [ex EXCEPT !.completed = TRUE]

\* The exam after the Submit Exam handler (lines 384-394).
Graded(ex) ==
    [ex EXCEPT !.score = Percentage(CorrectCount(ex), Len(ex.questions)),
               !.completed = TRUE]

\* Mutant of CanSubmitExam: one answer more than the paper has is required.
CanSubmitExamBeyond(ex) ==
    /\ Cardinality(ex.answered_questions) > Len(ex.questions)
    /\ ~ex.completed

\* Mutant of CanSubmitExam: the answered-set is not consulted.
CanSubmitExamUnchecked(ex) == ~ex.completed

\* The condition under which Submit Exam is shown (line 382).
CanSubmitExam(ex) ==
    /\ Cardinality(ex.answered_questions) = Len(ex.questions)
    /\ ~ex.completed

\* ------------------------------------------------------------------------
\* app_2.0.py: the script runs
\* ------------------------------------------------------------------------

\* The state a script run of browser session b leaves behind: the handler's
\* results, and after st.rerun() (rerun = TRUE) what the top of the queued
\* run makes of them.
RunReporting(b, history, used, cur, rerun, hfile, ufile, epoch, errors) ==
    LET resets_again == rerun /\ PoolExhausted(used)
    IN  /\ loaded' = [loaded EXCEPT ![b] = TRUE]
        /\ exam_history' = [exam_history EXCEPT ![b] = history]
        /\ used_question_ids' =
              [used_question_ids EXCEPT ![b] = IF rerun THEN ResetIfExhausted(used) ELSE used]
        /\ current_exam' = [current_exam EXCEPT ![b] = cur]
        /\ history_file' = hfile
        /\ used_file' = IF resets_again THEN save_used_question_ids({}) ELSE ufile
        /\ pool_epoch' = [pool_epoch EXCEPT ![b] = epoch]
        /\ resets' = [resets EXCEPT ![b] =
                         IF resets_again THEN TopResetCount(b) + 1 ELSE TopResetCount(b)]
        /\ save_errors' = errors
        /\ UNCHANGED <<questions_by_part, restarts, varsV1>>

\* A script run in which no save function reports an error.
Run(b, history, used, cur, rerun, hfile, ufile, epoch) ==
    RunReporting(b, history, used, cur, rerun, hfile, ufile, epoch, save_errors)

\* A run that changes nothing but the exam it shows (and what the top of
\* the script changes).
RunOnExam(b, ex, rerun) ==
    Run(b, Put(TopHistory(b), current_exam[b], ex), TopUsed(b), current_exam[b],
        rerun, history_file, TopUsedFile(b), pool_epoch[b])

\* A widget can be used once the page is rendered.
Idle(b) == loaded[b]

\* An exam is shown (display_exam_interface runs, line 355).
Showing(b) == Idle(b) /\ current_exam[b] # NoExam

Exam(b) == exam_history[b][current_exam[b]]

\* question and question_number of display_exam_interface (lines 366-368)
CurrentQuestion(ex) == ex.questions[ex.current_question + 1]
QuestionNumber(ex) == ex.current_question + 1

\* The first run of a new browser session: nothing is clicked.
PageLoad(b) ==
    /\ ~loaded[b]
    /\ Run(b, TopHistory(b), TopUsed(b), NoExam, FALSE, history_file,
           TopUsedFile(b), <<>>)

\* "Start New Practice Test" (lines 320-352), with the outcomes of its two
\* writes: the used pool (line 336), then the history (line 351).
StartExamWriting(b, used_outcome, history_outcome) ==
    /\ Idle(b)
    /\ Cardinality(DOMAIN TopHistory(b)) < MaxExams
    /\ \E exam_questions \in ExamQuestions(TopRemaining(b)) :
         LET numbered == AssignNumbers(exam_questions)
             used == MarkUsed(TopUsed(b), numbered)
             exam_id == NewExamId(TopHistory(b))
             history == Put(TopHistory(b), exam_id, NewSession(exam_id, numbered))
         IN  RunReporting(b, MemoryAfterSave(history), used, exam_id, TRUE,
                 Write(history_file, save_exam_history(history), history_outcome),
                 Write(TopUsedFile(b), save_used_question_ids(used), used_outcome),
                 Put(pool_epoch[b], exam_id, TopResetCount(b)),
                 [history |-> Reported(save_errors.history, history_outcome),
                  used |-> Reported(save_errors.used, used_outcome)])

\* "Start New Practice Test" with both stores written.
StartExam(b) == StartExamWriting(b, "written", "written")

\* "Start New Practice Test" with a write that fails.
StartExamSaveFails(b) ==
    /\ save_errors.history + save_errors.used < MaxSaveErrors
    /\ \E used_outcome, history_outcome \in WriteOutcomes :
          /\ (used_outcome = "written") # (history_outcome = "written")
          /\ StartExamWriting(b, used_outcome, history_outcome)

\* A button of the sidebar's Exam History (lines 307-316).
SelectExam(b, eid) ==
    /\ Idle(b)
    /\ eid \in DOMAIN TopHistory(b)
    /\ Run(b, TopHistory(b), TopUsed(b), eid, TRUE, history_file,
           TopUsedFile(b), pool_epoch[b])

\* An option button of a single-answer question (lines 134-145).
AnswerSingle(b, key) ==
    /\ Showing(b)
    /\ Len(CurrentQuestion(Exam(b)).correct_answer) <= 1
    /\ ~Answered(Exam(b), QuestionNumber(Exam(b)))
    /\ key \in Range(CurrentQuestion(Exam(b)).options)
    /\ RunOnExam(b, RecordAnswer(Exam(b), QuestionNumber(Exam(b)), <<key>>), TRUE)

\* "Submit Answer" of a multi-answer question (lines 94-111).
SubmitAnswer(b, new_selected_options) ==
    /\ Showing(b)
    /\ Len(CurrentQuestion(Exam(b)).correct_answer) > 1
    /\ ~Answered(Exam(b), QuestionNumber(Exam(b)))
    /\ new_selected_options \in Selections(CurrentQuestion(Exam(b)).options)
    /\ RunOnExam(b, RecordAnswer(Exam(b), QuestionNumber(Exam(b)), new_selected_options), TRUE)

\* "Previous" of display_navigation_controls (lines 171-174).
Previous(b) ==
    /\ Showing(b)
    /\ Exam(b).current_question > 0
    /\ RunOnExam(b, [Exam(b) EXCEPT !.current_question = @ - 1], TRUE)

\* "Next" of display_navigation_controls (lines 176-179).
NextQuestion(b) ==
    /\ Showing(b)
    /\ Exam(b).current_question < Len(Exam(b).questions) - 1
    /\ RunOnExam(b, [Exam(b) EXCEPT !.current_question = @ + 1], TRUE)

\* A button of the question map (lines 185-192).
QuestionMap(b, q_num) ==
    /\ Showing(b)
    /\ q_num \in 1..Len(Exam(b).questions)
    /\ RunOnExam(b, [Exam(b) EXCEPT !.current_question = q_num - 1], TRUE)

\* "Submit Exam" (lines 381-397): grades, completes and saves (with the
\* outcome of the write); no rerun.
SubmitExamWriting(b, history_outcome) ==
    /\ Showing(b)
    /\ CanSubmitExam(Exam(b))
    /\ LET history == Put(TopHistory(b), Exam(b).exam_id, Graded(Exam(b)))
       IN  RunReporting(b, MemoryAfterSave(history), TopUsed(b), current_exam[b], FALSE,
               Write(history_file, save_exam_history(history), history_outcome),
               TopUsedFile(b), pool_epoch[b],
               [save_errors EXCEPT !.history = Reported(@, history_outcome)])

\* "Submit Exam" with the history written.
SubmitExam(b) == SubmitExamWriting(b, "written")

\* "Submit Exam" with a write that fails.
SubmitExamSaveFails(b) ==
    /\ save_errors.history + save_errors.used < MaxSaveErrors
    /\ \E history_outcome \in WriteOutcomes \ {"written"} :
          SubmitExamWriting(b, history_outcome)

\* "Back to Exam List" (lines 422-424).
BackToExamList(b) ==
    /\ Showing(b)
    /\ Run(b, TopHistory(b), TopUsed(b), NoExam, TRUE, history_file,
           TopUsedFile(b), pool_epoch[b])

\* The server process stops and starts again: st.session_state of every
\* browser session is gone, the two files stay.
Restart ==
    /\ restarts < MaxRestarts
    /\ restarts' = restarts + 1
    /\ loaded' = [b \in Browsers |-> FALSE]
    /\ exam_history' = [b \in Browsers |-> <<>>]
    /\ used_question_ids' = [b \in Browsers |-> {}]
    /\ current_exam' = [b \in Browsers |-> NoExam]
    /\ pool_epoch' = [b \in Browsers |-> <<>>]
    /\ resets' = [b \in Browsers |-> 0]
    /\ UNCHANGED <<questions_by_part, history_file, used_file, save_errors, varsV1>>

Init2 ==
    /\ loaded = [b \in Browsers |-> FALSE]
    /\ exam_history = [b \in Browsers |-> <<>>]
    /\ used_question_ids = [b \in Browsers |-> {}]
    /\ current_exam = [b \in Browsers |-> NoExam]
    /\ pool_epoch = [b \in Browsers |-> <<>>]
    /\ resets = [b \in Browsers |-> 0]
    /\ history_file = NoFile
    /\ used_file = NoFile
    /\ restarts = 0
    /\ save_errors = [history |-> 0, used |-> 0]

InitV1 ==
    /\ session_state = <<>>
    /\ query_params = NoParams
    /\ user_selection = <<>>

Init ==
    /\ questions_by_part \in Catalogs
    /\ Init2
    /\ InitV1

Next ==
    \/ \E b \in User : PageLoad(b)
    \/ \E b \in User : StartExam(b)
    \/ \E b \in User : \E eid \in 1..MaxExams : SelectExam(b, eid)
    \/ \E b \in User : \E key \in Letters : AnswerSingle(b, key)
    \/ \E b \in User : \E sel \in Selections(<<"A", "B">>) : SubmitAnswer(b, sel)
    \/ \E b \in User : Previous(b)
    \/ \E b \in User : NextQuestion(b)
    \/ \E b \in User : \E q_num \in 1..ExamSize : QuestionMap(b, q_num)
    \/ \E b \in User : SubmitExam(b)
    \/ \E b \in User : BackToExamList(b)
    \/ Restart

\* app_2.0.py, one browser session, with restarts of the server process.
Spec == Init /\ [][Next]_vars

\* The steps of a user who works towards completing the exams in progress:
\* open one when none is being worked on, leave an answered position for one
\* not yet answered, answer the question shown, submit.
Busy(b) == Showing(b) /\ ~Exam(b).completed

OpenInProgress(b, eid) ==
    /\ ~Busy(b)
    /\ eid \in DOMAIN TopHistory(b)
    /\ ~TopHistory(b)[eid].completed
    /\ SelectExam(b, eid)

GoToUnanswered(b, eid) ==
    /\ Showing(b)
    /\ current_exam[b] = eid
    /\ QuestionNumber(Exam(b)) \in Exam(b).answered_questions
    /\ \E q_num \in 1..ExamSize :
          /\ q_num \notin Exam(b).answered_questions
          /\ QuestionMap(b, q_num)

AnswerShown(b, eid) ==
    /\ current_exam[b] = eid
    /\ \/ \E key \in Letters : AnswerSingle(b, key)
       \/ \E sel \in Selections(<<"A", "B">>) : SubmitAnswer(b, sel)

SubmitShown(b, eid) ==
    /\ current_exam[b] = eid
    /\ SubmitExam(b)

UserStep(b) ==
    \E eid \in 1..MaxExams :
        \/ OpenInProgress(b, eid)
        \/ GoToUnanswered(b, eid)
        \/ AnswerShown(b, eid)
        \/ SubmitShown(b, eid)

NextLive ==
    \/ \E b \in User : PageLoad(b)
    \/ \E b \in User : StartExam(b)
    \/ \E b \in User : \E eid \in 1..MaxExams : OpenInProgress(b, eid)
    \/ \E b \in User : \E eid \in 1..MaxExams : GoToUnanswered(b, eid)
    \/ \E b \in User : \E eid \in 1..MaxExams : AnswerShown(b, eid)
    \/ \E b \in User : \E eid \in 1..MaxExams : SubmitShown(b, eid)
    \/ Restart

\* The user does not stop: a step towards completion that stays possible is
\* taken, and the page is loaded after a restart. Starting an exam and
\* restarting the process are left to chance.
FairUser == \A b \in User : WF_vars(PageLoad(b)) /\ WF_vars(UserStep(b))

\* app_2.0.py, one browser session with restarts, used by such a user.
SpecLive == Init /\ [][NextLive]_vars /\ FairUser

\* Two browser sessions of one server process, each with its own
\* st.session_state, sharing the two files.
NextShared ==
    \/ \E b \in Browsers : PageLoad(b)
    \/ \E b \in Browsers : StartExam(b)
    \/ \E b \in Browsers : \E key \in Letters : AnswerSingle(b, key)
    \/ \E b \in Browsers : \E sel \in Selections(<<"A", "B">>) : SubmitAnswer(b, sel)
    \/ \E b \in Browsers : NextQuestion(b)
    \/ \E b \in Browsers : SubmitExam(b)

SpecShared == Init /\ [][NextShared]_vars

\* One browser session whose writes of the two stores can fail.
NextFailing ==
    \/ \E b \in User : PageLoad(b)
    \/ \E b \in User : StartExam(b)
    \/ \E b \in User : StartExamSaveFails(b)
    \/ \E b \in User : \E eid \in 1..MaxExams : SelectExam(b, eid)
    \/ \E b \in User : \E key \in Letters : AnswerSingle(b, key)
    \/ \E b \in User : \E sel \in Selections(<<"A", "B">>) : SubmitAnswer(b, sel)
    \/ \E b \in User : NextQuestion(b)
    \/ \E b \in User : SubmitExam(b)
    \/ \E b \in User : SubmitExamSaveFails(b)
    \/ Restart

SpecFailing == Init /\ [][NextFailing]_vars

\* ------------------------------------------------------------------------
\* app.py: one session per part, kept in st.session_state under the part's
\* name.  The search sidebar and the mode radio are left out: neither
\* takes part in a part's session.  The query parameters are read as the
\* code means them: 'part' names a part and 'question' is a number.
\* ------------------------------------------------------------------------

\* parts = list(questions_by_part.keys())
parts == [i \in DOMAIN questions_by_part |-> questions_by_part[i].name]

\* questions_by_part[part_name]
PartQuestions(part_name) ==
    (CHOOSE p \in Range(questions_by_part) : p.name = part_name).questions

\* Python's seq[i]: a negative index counts from the end, and an index
\* outside -len..len-1 raises IndexError.
InPyRange(seq, i) == -Len(seq) <= i /\ i < Len(seq)
PyIndex(seq, i) == IF i >= 0 THEN seq[i + 1] ELSE seq[Len(seq) + i + 1]

\* The session dict of lines 159-164 and 268-273.
NewPartSession(position) ==
    [current_question |-> position,
     answers |-> <<>>,
     show_results |-> FALSE,
     flagged |-> {}]

\* Lines 155-169: with both query parameters present and the part known, the
\* part's session is created at, or moved to, question_number - 1.
NavigateByQuery(ss, qp) ==
    IF qp = NoParams \/ qp.part \notin Range(parts) THEN ss
    ELSE IF qp.part \notin DOMAIN ss
         THEN Put(ss, qp.part, NewPartSession(qp.question - 1))
         ELSE [ss EXCEPT ![qp.part].current_question = qp.question - 1]

\* The tab of a part can show its session: results, or the question at
\* current_question (line 281 raises IndexError otherwise).
Renders(part_name, session) ==
    session.show_results \/ InPyRange(PartQuestions(part_name), session.current_question)

\* Mutant of ShownSelection: the widgets start from their defaults, whatever
\* the ledger holds.
ShownSelectionDefault(question, answers) ==
    IF Len(question.correct_answer) > 1 THEN <<>> ELSE <<question.options[1]>>

\* What the widgets of the shown question hold after a run (lines 307-342):
\* the checked boxes in option order, or the radio's letter, which starts at
\* the recorded letter and else at the first option.
ShownSelection(question, answers) ==
    LET previous_selection == Get(answers, question.question_number)
    IN  IF Len(question.correct_answer) > 1
        THEN SelectSeq(question.options, LAMBDA k : k \in Range(previous_selection))
        ELSE IF previous_selection # <<>> /\ previous_selection[1] \in Range(question.options)
             THEN <<previous_selection[1]>>
             ELSE <<question.options[1]>>

\* The tab of a part in a run in which none of its widgets changed: the
\* selection of the shown question is saved into the ledger (lines 324, 342).
RenderTab(part_name, session) ==
    IF session.show_results THEN session
    ELSE LET question == PyIndex(PartQuestions(part_name), session.current_question)
         IN  [session EXCEPT !.answers =
                 Put(session.answers, question.question_number,
                     ShownSelection(question, session.answers))]

RECURSIVE RenderTabs(_, _)
\* The loop over the tabs (lines 259-434) from tab i on: each part's session
\* is created when missing and its tab rendered; an IndexError ends the run.
RenderTabs(ss, i) ==
    IF i > Len(parts) THEN ss
    ELSE LET part_name == parts[i]
             ss1 == IF part_name \in DOMAIN ss THEN ss
                    ELSE Put(ss, part_name, NewPartSession(0))
         IN  IF ~Renders(part_name, ss1[part_name]) THEN ss1
             ELSE RenderTabs([ss1 EXCEPT ![part_name] = RenderTab(part_name, @)], i + 1)

\* A whole script run in which no widget changed.
ScriptRun(ss, qp) == RenderTabs(NavigateByQuery(ss, qp), 1)

\* The widgets of a part's tab are on the page: the last run reached the
\* tab and rendered it.
TabShown(part_name) ==
    /\ part_name \in DOMAIN session_state
    /\ \E i \in DOMAIN parts :
          /\ parts[i] = part_name
          /\ \A j \in 1..i : /\ parts[j] \in DOMAIN session_state
                             /\ Renders(parts[j], session_state[parts[j]])

\* The tab shows a question (line 280).
QuestionShown(part_name) ==
    TabShown(part_name) /\ ~session_state[part_name].show_results

ShownQuestion(part_name) ==
    PyIndex(PartQuestions(part_name), session_state[part_name].current_question)

\* The run of a widget of part_name's tab that leaves the session as
\* `session`, and the run st.rerun() queues.
PartRun(part_name, session, qp) ==
    /\ session_state' = ScriptRun([session_state EXCEPT ![part_name] = session], qp)
    /\ query_params' = qp
    /\ UNCHANGED <<questions_by_part, vars2>>

\* The page is opened at a URL, with or without query parameters: a new
\* browser session, whose st.session_state is empty.
OpenPage(qp) ==
    /\ session_state' = ScriptRun(<<>>, qp)
    /\ query_params' = qp
    /\ user_selection' = <<>>
    /\ UNCHANGED <<questions_by_part, vars2>>

\* The radio of a single-answer question is set to a letter (lines 326-342).
SelectRadio(part_name, key) ==
    /\ QuestionShown(part_name)
    /\ Len(ShownQuestion(part_name).correct_answer) <= 1
    /\ key \in Range(ShownQuestion(part_name).options)
    /\ PartRun(part_name,
               [session_state[part_name] EXCEPT !.answers =
                   Put(@, ShownQuestion(part_name).question_number, <<key>>)],
               query_params)
    /\ user_selection' =
          Put(user_selection, <<part_name, ShownQuestion(part_name).question_number>>, <<key>>)

\* A checkbox of a multi-answer question is checked or unchecked (lines
\* 310-324).
ToggleCheckbox(part_name, key) ==
    /\ QuestionShown(part_name)
    /\ Len(ShownQuestion(part_name).correct_answer) > 1
    /\ key \in Range(ShownQuestion(part_name).options)
    /\ LET question == ShownQuestion(part_name)
           checked == Range(Get(session_state[part_name].answers, question.question_number))
           now == IF key \in checked THEN checked \ {key} ELSE checked \cup {key}
           selected_options == SelectSeq(question.options, LAMBDA k : k \in now)
       IN  /\ PartRun(part_name,
                      [session_state[part_name] EXCEPT !.answers =
                          Put(@, question.question_number, selected_options)],
                      query_params)
           /\ user_selection' =
                 Put(user_selection, <<part_name, question.question_number>>, selected_options)

\* "Flag this question" is checked or unchecked (lines 344-351).
ToggleFlag(part_name) ==
    /\ QuestionShown(part_name)
    /\ LET question_number == ShownQuestion(part_name).question_number
       IN  PartRun(part_name,
                   [session_state[part_name] EXCEPT !.flagged =
                       IF question_number \in @ THEN @ \ {question_number}
                       ELSE @ \cup {question_number}],
                   query_params)
    /\ UNCHANGED user_selection

\* "Previous" (lines 357-360).
PartPrevious(part_name) ==
    /\ QuestionShown(part_name)
    /\ session_state[part_name].current_question > 0
    /\ PartRun(part_name,
               [session_state[part_name] EXCEPT !.current_question = @ - 1],
               query_params)
    /\ UNCHANGED user_selection

\* "Next" (lines 362-365).
PartNext(part_name) ==
    /\ QuestionShown(part_name)
    /\ session_state[part_name].current_question < Len(PartQuestions(part_name)) - 1
    /\ PartRun(part_name,
               [session_state[part_name] EXCEPT !.current_question = @ + 1],
               query_params)
    /\ UNCHANGED user_selection

\* A button of the part's question map (lines 289-298).
PartQuestionMap(part_name, q_num) ==
    /\ QuestionShown(part_name)
    /\ q_num \in 1..Len(PartQuestions(part_name))
    /\ PartRun(part_name,
               [session_state[part_name] EXCEPT !.current_question = q_num - 1],
               query_params)
    /\ UNCHANGED user_selection

\* "Go to <part> Q<fq>" of the sidebar's flagged questions (lines 242-252):
\* navigate_to_question sets the query parameters and reruns.
GoToFlagged(part_name, fq) ==
    /\ part_name \in DOMAIN session_state
    /\ fq \in session_state[part_name].flagged
    /\ PartRun(part_name, session_state[part_name],
               [part |-> part_name, question |-> fq])
    /\ UNCHANGED user_selection

\* "Submit Exam" of a part (lines 367-369).
PartSubmitExam(part_name) ==
    /\ QuestionShown(part_name)
    /\ PartRun(part_name,
               [session_state[part_name] EXCEPT !.show_results = TRUE],
               query_params)
    /\ UNCHANGED user_selection

\* "Retake Exam" (lines 429-434).
RetakeExam(part_name) ==
    /\ TabShown(part_name)
    /\ session_state[part_name].show_results
    /\ PartRun(part_name,
               [session_state[part_name] EXCEPT !.current_question = 0,
                                                !.answers = <<>>,
                                                !.show_results = FALSE,
                                                !.flagged = {}],
               query_params)
    /\ user_selection' =
          [k \in {j \in DOMAIN user_selection : j[1] # part_name} |-> user_selection[k]]

\* Mutant of PartCorrect: a flagged question is never counted as correct.
PartCorrectUnflagged(session, question) ==
    /\ question.question_number \notin session.flagged
    /\ Range(Get(session.answers, question.question_number)) = Range(question.correct_answer)

\* is_correct of the results (line 403) for one question of the part.
PartCorrect(session, question) ==
    Range(Get(session.answers, question.question_number)) = Range(question.correct_answer)

\* correct_answers_count of lines 394-423.
PartCorrectCount(part_name, session) ==
    Cardinality({i \in DOMAIN PartQuestions(part_name) :
                    PartCorrect(session, PartQuestions(part_name)[i])})

\* percentage_score (line 426), kept exact as <<numerator, denominator>>.
percentage_score(part_name, session) ==
    Percentage(PartCorrectCount(part_name, session), Len(PartQuestions(part_name)))

PartNames == {"A", "B"}

QueryParams ==
    {NoParams} \cup [part : PartNames, question : 0..MaxQueryNumber]

NextV1 ==
    \/ \E p \in PartNames : \E key \in Letters : SelectRadio(p, key)
    \/ \E p \in PartNames : \E key \in Letters : ToggleCheckbox(p, key)
    \/ \E p \in PartNames : ToggleFlag(p)
    \/ \E p \in PartNames : PartPrevious(p)
    \/ \E p \in PartNames : PartNext(p)
    \/ \E p \in PartNames : \E q_num \in 1..MaxQueryNumber : PartQuestionMap(p, q_num)
    \/ \E p \in PartNames : \E fq \in 1..MaxQueryNumber : GoToFlagged(p, fq)
    \/ \E p \in PartNames : PartSubmitExam(p)
    \/ \E p \in PartNames : RetakeExam(p)
    \/ \E qp \in QueryParams : OpenPage(qp)

\* app.py, one browser session.
SpecV1 == Init /\ [][NextV1]_vars

\* Either program is run, the other one is not started: the two scripts
\* share no file and no session state.
NextEither ==
    \/ InitV1 /\ Next
    \/ Init2 /\ NextV1

SpecEither == Init /\ [][NextEither]_vars

\* ------------------------------------------------------------------------
\* Properties of app_2.0.py
\* ------------------------------------------------------------------------

\* The exam sessions a browser session holds in memory.
Sessions(b) == {exam_history[b][eid] : eid \in DOMAIN exam_history[b]}

\* The exam sessions a load of exam_history.json returns.
StoredSessions ==
    {load_exam_history(history_file)[eid] : eid \in DOMAIN load_exam_history(history_file)}

\* The exam ids a step keeps in the memory of browser session b.
Kept(b) == DOMAIN exam_history[b] \cap DOMAIN exam_history'[b]

\* A step of a running browser session that adds exam eid to its history.
Started(b, eid) ==
    /\ loaded[b]
    /\ eid \notin DOMAIN exam_history[b]
    /\ eid \in DOMAIN exam_history'[b]

\* Every position 1..N of the paper is in the answered-set.
AllAnswered(ex) == ex.answered_questions = 1..Len(ex.questions)

\* C1: a history whose sessions all have answers and answered positions is
\* returned unchanged by load_exam_history() after save_exam_history().
C1_RoundTrip ==
    \A b \in Browsers :
        (/\ loaded[b]
         /\ exam_history[b] # <<>>
         /\ \A ex \in Sessions(b) : ex.answers # <<>> /\ ex.answered_questions # {})
        => load_exam_history(save_exam_history(exam_history[b])) = exam_history[b]

\* C2: no step completes or scores a session that has an unanswered position.
C2_CompletionNeedsAllAnswered ==
    [][\A b \in Browsers : \A eid \in Kept(b) :
          (~exam_history[b][eid].completed /\ ~AllAnswered(exam_history[b][eid]))
          => (/\ ~exam_history'[b][eid].completed
              /\ exam_history'[b][eid].score = None)]_vars

\* C2 witness: a session of two questions was completed.
C2_Witness ==
    \E b \in Browsers : \E ex \in Sessions(b) :
        ex.completed /\ Len(ex.questions) = 2 /\ AllAnswered(ex)

\* C3: in both programs the current position of every session is an index
\* of its paper, 0..len(paper)-1.
C3_PositionInRange ==
    /\ \A b \in Browsers : \A ex \in Sessions(b) :
          ex.current_question \in 0..Len(ex.questions) - 1
    /\ \A part_name \in DOMAIN session_state :
          session_state[part_name].current_question
              \in 0..Len(PartQuestions(part_name)) - 1

\* C4: with a non-empty catalog no paper is empty, and a running session
\* never keeps an exhausted pool: it is reset before an exam can be started.
C4_NoEmptyPaper ==
    \A b \in Browsers :
        /\ \A ex \in Sessions(b) : Len(ex.questions) > 0
        /\ loaded[b] => ~PoolExhausted(used_question_ids[b])

\* C4 witness: the catalog is smaller than an exam, all of it was used, and
\* an exam was started after the reset.
C4_Witness ==
    \E b \in Browsers : \E eid \in DOMAIN pool_epoch[b] :
        /\ Len(all_questions) < ExamSize
        /\ pool_epoch[b][eid] > 0
        /\ Len(exam_history[b][eid].questions) = Len(all_questions)

\* C5: no paper contains the same question identifier twice.
C5_DistinctIds ==
    \A b \in Browsers : \A ex \in Sessions(b) :
        \A i, j \in DOMAIN ex.questions :
            i # j => ex.questions[i].id # ex.questions[j].id

\* The available set: the catalog's questions whose id is not in the used
\* pool, and the whole catalog when that leaves none.
AvailableSet(used) ==
    LET unused == {q \in Range(all_questions) : q.id \notin used}
    IN  IF unused = {} THEN Range(all_questions) ELSE unused

\* The paper's question p is the catalog's question q.
SameQuestion(p, q) == [p EXCEPT !.question_number = q.question_number] = q

\* C6: a new paper has min(ExamSize, |available set|) questions, all of them
\* from the available set.
C6_PaperSize ==
    [][\A b \in Browsers : \A eid \in 1..MaxExams + 1 :
          Started(b, eid) =>
            LET paper == exam_history'[b][eid].questions
                available == AvailableSet(used_question_ids[b])
            IN  /\ Len(paper) = Min(ExamSize, Cardinality(available))
                /\ \A i \in DOMAIN paper :
                      \E q \in available : SameQuestion(paper[i], q)]_vars

\* C6 witness: an exam of ExamSize questions from a larger catalog, and one
\* of fewer questions.
C6_Witness ==
    \E b \in Browsers : \E ex1, ex2 \in Sessions(b) :
        /\ Len(ex1.questions) = ExamSize
        /\ Len(all_questions) > ExamSize
        /\ Len(ex2.questions) < ExamSize

\* C7: two exams of one browser session with no pool reset between them
\* share no question identifier.
C7_DisjointWithoutReset ==
    \A b \in Browsers : \A e1, e2 \in DOMAIN pool_epoch[b] :
        (e1 # e2 /\ pool_epoch[b][e1] = pool_epoch[b][e2])
        => Ids(exam_history[b][e1].questions) \cap Ids(exam_history[b][e2].questions) = {}

\* C7 witness: two exams were started with no reset between them.
C7_Witness ==
    \E b \in Browsers : \E e1, e2 \in DOMAIN pool_epoch[b] :
        e1 # e2 /\ pool_epoch[b][e1] = pool_epoch[b][e2]

\* C8: a session, in memory or in the history file, has a score exactly when
\* it is completed.
C8_ScoreIffCompleted ==
    /\ \A b \in Browsers : \A ex \in Sessions(b) : (ex.score # None) <=> ex.completed
    /\ \A ex \in StoredSessions : (ex.score # None) <=> ex.completed

\* C8 witness: a completed session was reloaded from the history file.
C8_Witness ==
    /\ restarts > 0
    /\ \E b \in Browsers : \E ex \in Sessions(b) : ex.completed /\ ex.score # None

\* The letters the ledger records for position p, under the key a script run
\* wrote or the key a load returned; none when p has no entry.
Submitted(ex, p) ==
    IF IntKey(p) \in DOMAIN ex.answers THEN ex.answers[IntKey(p)]
    ELSE IF StrKey(p) \in DOMAIN ex.answers THEN ex.answers[StrKey(p)]
    ELSE <<>>

\* The number of positions whose submitted letters are the correct ones.
SubmittedCorrect(ex) ==
    Cardinality({p \in 1..Len(ex.questions) :
                    Range(Submitted(ex, p)) = Range(ex.questions[p].correct_answer)})

\* The same for a part of app.py, whose paper is the part's question list.
PartSubmittedCorrect(part_name, session) ==
    Cardinality({p \in 1..Len(PartQuestions(part_name)) :
                    Range(Get(session.answers, p))
                        = Range(PartQuestions(part_name)[p].correct_answer)})

\* C9: the score an exam gets when it is submitted is 100 * C / N, C being
\* the number of positions whose submitted letters equal the correct letters
\* as sets and N the paper length, in app_2.0.py and in the results of app.py.
C9_ScoreFormula ==
    [][/\ \A b \in Browsers : \A eid \in Kept(b) :
             (~exam_history[b][eid].completed /\ exam_history'[b][eid].completed)
             => LET ex == exam_history'[b][eid]
                IN  /\ ex.score = Percentage(SubmittedCorrect(ex), Len(ex.questions))
                    /\ 0 <= ex.score[1] /\ ex.score[1] <= 100 * ex.score[2]
       /\ \A part_name \in DOMAIN session_state' :
             session_state'[part_name].show_results
             => percentage_score(part_name, session_state'[part_name])
                  = Percentage(PartSubmittedCorrect(part_name, session_state'[part_name]),
                               Len(PartQuestions(part_name)))]_vars

\* C10: a completed session stays completed and keeps its score, its paper
\* and its answer ledger.
C10_CompletedFrozen ==
    [][\A b \in Browsers : \A eid \in Kept(b) :
          exam_history[b][eid].completed =>
            /\ exam_history'[b][eid].completed
            /\ exam_history'[b][eid].score = exam_history[b][eid].score
            /\ exam_history'[b][eid].questions = exam_history[b][eid].questions
            /\ exam_history'[b][eid].answers = exam_history[b][eid].answers]_vars

\* C11: navigation is allowed only while the session is in progress: no step
\* changes the current position of a session that is completed (app_2.0.py)
\* or of a part that is showing results and goes on showing them (app.py).
C11_NavigationOnlyInProgress ==
    [][/\ \A b \in Browsers : \A eid \in Kept(b) :
             exam_history[b][eid].completed
             => exam_history'[b][eid].current_question
                  = exam_history[b][eid].current_question
       /\ \A part_name \in DOMAIN session_state \cap DOMAIN session_state' :
             (session_state[part_name].show_results
                /\ session_state'[part_name].show_results)
             => session_state'[part_name].current_question
                  = session_state[part_name].current_question]_vars

\* The exams started since the server process started, by browser session.
StartedExams == {be \in Browsers \X (1..MaxExams + 1) : be[2] \in DOMAIN pool_epoch[be[1]]}

\* C12: the persisted history holds every exam the browser sessions started,
\* each under an identifier of its own: no session's write is lost.
C12_NoLostHistoryWrite ==
    LET stored == load_exam_history(history_file)
    IN  /\ \A be \in StartedExams :
              \E sid \in DOMAIN stored :
                  stored[sid].questions = exam_history[be[1]][be[2]].questions
        /\ Cardinality(DOMAIN stored) >= Cardinality(StartedExams)

\* C13: starting an exam (with no pool reset in the step) leaves in the
\* persisted pool every identifier it held and adds those of the new paper:
\* no update of the used pool is lost.
C13_NoLostPoolUpdate ==
    [][\A b \in Browsers : \A eid \in 1..MaxExams + 1 :
          (Started(b, eid) /\ resets' = resets)
          => load_used_question_ids(used_file')
               = load_used_question_ids(used_file) \cup Ids(exam_history'[b][eid].questions)]_vars

\* C14: a write of a store that fails leaves the persisted contents as they
\* were, and no file is ever left without a complete document: a later load
\* never observes a truncated or partially written store.
C14_NoPartialWrite ==
    [][/\ history_file' # TornFile
       /\ used_file' # TornFile
       /\ (save_errors'.history > save_errors.history) => history_file' = history_file
       /\ (save_errors'.used > save_errors.used /\ resets' = resets)
             => used_file' = used_file]_vars

\* A step in which a save function was called: a store or the count of the
\* reported write errors changed.
SaveCalled ==
    history_file' # history_file \/ used_file' # used_file \/ save_errors' # save_errors

\* C15: the save functions never change the state in memory, whether the
\* write succeeds or fails.  In a step that calls one, every session of the
\* history keeps its ledger, its answered-set, its position and its paper
\* (completed and score change only by the grading of the step itself), a
\* started exam leaves the used pool as the handler computed it, and a
\* write that fails is reported while the browser session goes on.
C15_SaveKeepsMemory ==
    [][\A b \in Browsers :
          (loaded[b] /\ restarts' = restarts) =>
            /\ loaded'[b]
            /\ DOMAIN exam_history[b] \subseteq DOMAIN exam_history'[b]
            /\ \A eid \in Kept(b) :
                  LET old == exam_history[b][eid]
                      new == exam_history'[b][eid]
                  IN  SaveCalled =>
                        /\ new.answers = old.answers
                        /\ new.answered_questions = old.answered_questions
                        /\ new.current_question = old.current_question
                        /\ new.questions = old.questions
                        /\ \/ new.completed = old.completed /\ new.score = old.score
                           \/ ~old.completed /\ new.score = Graded(old).score
            /\ \A eid \in 1..MaxExams + 1 :
                  Started(b, eid) =>
                    used_question_ids'[b] =
                      ResetIfExhausted(used_question_ids[b]
                                         \cup Ids(exam_history'[b][eid].questions))
            /\ (history_file' = TornFile /\ history_file # TornFile)
                  => save_errors'.history = save_errors.history + 1
            /\ (used_file' = TornFile /\ used_file # TornFile)
                  => save_errors'.used = save_errors.used + 1]_vars

\* C15 witness: the write of the history failed and left no document, and
\* the session in memory holds a completed exam with its ledger.
C15_Witness ==
    /\ history_file = TornFile
    /\ save_errors.history > 0
    /\ \E b \in Browsers : \E ex \in Sessions(b) :
          /\ loaded[b]
          /\ ex.completed
          /\ ex.answers # <<>>
          /\ ex.answered_questions = 1..Len(ex.questions)

\* C16: the persisted history is a durable registry.  After every step each
\* session a browser session holds is stored under its identifier (with its
\* paper, and completed exactly when it is completed in memory); a stored
\* session stays stored under its identifier; and the first run after a
\* restart loads every stored session, so that it can be resumed.
C16_HistoryDurable ==
    [][LET stored == load_exam_history(history_file)
           stored_after == load_exam_history(history_file')
       IN  /\ \A b \in Browsers : \A eid \in DOMAIN exam_history'[b] :
                 loaded'[b] =>
                   /\ eid \in DOMAIN stored_after
                   /\ stored_after[eid].questions = exam_history'[b][eid].questions
                   /\ stored_after[eid].completed = exam_history'[b][eid].completed
           /\ \A eid \in DOMAIN stored :
                 /\ eid \in DOMAIN stored_after
                 /\ stored_after[eid].questions = stored[eid].questions
           /\ \A b \in Browsers :
                 (~loaded[b] /\ loaded'[b]) => DOMAIN exam_history'[b] = DOMAIN stored]_vars

\* The positions of the paper that have a ledger entry under the key a load
\* returned, and those with an entry a script run of this process wrote.
ReloadedPositions(ex) == {p \in 1..Len(ex.questions) : StrKey(p) \in DOMAIN ex.answers}
AnsweredSinceLoad(ex) == {p \in 1..Len(ex.questions) : IntKey(p) \in DOMAIN ex.answers}

\* The session as it would be had the process not been restarted: the same
\* letters at the same positions, every entry under the key a script run
\* writes.
WithoutRestart(ex) ==
    [ex EXCEPT !.answers =
        [k \in {IntKey(p) : p \in ReloadedPositions(ex) \cup AnsweredSinceLoad(ex)} |->
            Submitted(ex, k[2])]]

\* C17: resuming is transparent to grading.  A session that was reloaded
\* with some positions answered, and in which the remaining positions were
\* answered after the reload, gets the score it would get without the
\* restart.
C17_ResumeTransparent ==
    [][\A b \in Browsers : \A eid \in Kept(b) :
          LET old == exam_history[b][eid]
          IN  (/\ ~old.completed
               /\ exam_history'[b][eid].completed
               /\ ReloadedPositions(old) # {}
               /\ ReloadedPositions(old) \cap AnsweredSinceLoad(old) = {})
              => exam_history'[b][eid].score = Graded(WithoutRestart(old)).score]_vars

\* ------------------------------------------------------------------------
\* Properties of app.py
\* ------------------------------------------------------------------------

\* C18: Retake Exam leaves the part's session at position 0 with an empty
\* ledger, no flags and no results shown, and leaves the paper as it was.
C18_RetakeResets ==
    [][\A part_name \in PartNames :
          RetakeExam(part_name)
          => /\ session_state'[part_name] = NewPartSession(0)
             /\ questions_by_part' = questions_by_part]_vars

\* C19: Submit Exam is offered whenever a question is shown, and in the
\* results no question the user never answered counts as correct (for the
\* questions that have a correct answer); with nothing answered the score
\* is 0.
C19_UnansweredIncorrect ==
    \A part_name \in DOMAIN session_state :
        /\ QuestionShown(part_name) => ENABLED PartSubmitExam(part_name)
        /\ session_state[part_name].show_results =>
              \A i \in DOMAIN PartQuestions(part_name) :
                  LET question == PartQuestions(part_name)[i]
                  IN  (/\ <<part_name, question.question_number>> \notin DOMAIN user_selection
                       /\ question.correct_answer # <<>>)
                      => ~PartCorrect(session_state[part_name], question)

\* C20: the ledger entry of every question the user answered is exactly the
\* letter set the user selected last, and selecting again the letter the
\* ledger already holds leaves the session state as it is.
C20_LastSelectionKept ==
    [][/\ \A k \in DOMAIN user_selection' :
             /\ k[1] \in DOMAIN session_state'
             /\ k[2] \in DOMAIN session_state'[k[1]].answers
             /\ session_state'[k[1]].answers[k[2]] = user_selection'[k]
       /\ \A part_name \in PartNames : \A key \in Letters :
             (/\ SelectRadio(part_name, key)
              /\ Get(session_state[part_name].answers,
                     ShownQuestion(part_name).question_number) = <<key>>)
             => session_state' = session_state]_vars

\* C20 witness: the user's last selection, the second option, replaced the
\* entry the ledger held for the question, and a checkbox selection is held
\* as well.
C20_Witness ==
    \/ \E k \in DOMAIN user_selection :
          /\ user_selection[k] = <<"B">>
          /\ session_state[k[1]].answers[k[2]] = <<"B">>
          /\ session_state[k[1]].current_question > 0
    \/ \E k \in DOMAIN user_selection :
          /\ user_selection[k] = <<"A", "B">>
          /\ session_state[k[1]].answers[k[2]] = <<"A", "B">>
          /\ session_state[k[1]].show_results

\* C21: toggling the flag of a question changes the part's flagged set and
\* nothing else: the ledger, the position, the results status and the score
\* the grading computes are what they were, as is every other part.
C21_FlagOnlyFlags ==
    [][\A part_name \in PartNames :
          ToggleFlag(part_name) =>
            LET old == session_state[part_name]
                new == session_state'[part_name]
            IN  /\ new.flagged # old.flagged
                /\ new.answers = old.answers
                /\ new.current_question = old.current_question
                /\ new.show_results = old.show_results
                /\ percentage_score(part_name, new) = percentage_score(part_name, old)
                /\ \A other \in DOMAIN session_state \ {part_name} :
                      session_state'[other] = session_state[other]]_vars

\* C21 witness: a part was graded with a question flagged, and scored above 0.
C21_Witness ==
    \E part_name \in DOMAIN session_state :
        /\ session_state[part_name].show_results
        /\ session_state[part_name].flagged # {}
        /\ percentage_score(part_name, session_state[part_name])[1] > 0

\* C22: the questions of every paper, in memory and in the history file,
\* carry the positions 1..len(paper) in paper order; no step changes the
\* paper of a session in memory or in the file, and a load returns the
\* papers the file holds.
C22_PaperFixed ==
    [][LET stored == load_exam_history(history_file)
           stored_after == load_exam_history(history_file')
       IN  /\ \A b \in Browsers : \A eid \in DOMAIN exam_history'[b] :
                 \A i \in DOMAIN exam_history'[b][eid].questions :
                     exam_history'[b][eid].questions[i].question_number = i
           /\ \A eid \in DOMAIN stored_after :
                 \A i \in DOMAIN stored_after[eid].questions :
                     stored_after[eid].questions[i].question_number = i
           /\ \A b \in Browsers : \A eid \in Kept(b) :
                 exam_history'[b][eid].questions = exam_history[b][eid].questions
           /\ \A eid \in DOMAIN stored \cap DOMAIN stored_after :
                 stored_after[eid].questions = stored[eid].questions
           /\ \A b \in Browsers : \A eid \in DOMAIN exam_history'[b] :
                 (~loaded[b] /\ loaded'[b])
                 => /\ eid \in DOMAIN stored
                    /\ exam_history'[b][eid].questions = stored[eid].questions]_vars

\* C22 witness: after a restart the history holds a completed exam of two
\* questions, drawn from two parts of the catalog, and a second exam.
C22_Witness ==
    /\ restarts > 0
    /\ \E b \in Browsers : \E ex \in Sessions(b) :
          /\ ex.completed
          /\ Len(ex.questions) = 2
          /\ ex.questions[1].origin[1] # ex.questions[2].origin[1]
          /\ Cardinality(DOMAIN exam_history[b]) = 2

\* C23: whenever the exam shown is in progress with every position answered,
\* Submit Exam is enabled; taking it completes the exam with a score and
\* writes the completed exam to the history file; and with a fair user every
\* exam in progress is completed in the end.
C23_EventuallyCompleted ==
    /\ [](\A b \in User :
            (Showing(b) /\ AllAnswered(Exam(b)) /\ ~Exam(b).completed)
            => ENABLED SubmitExam(b))
    /\ [][\A b \in User :
            SubmitExam(b) =>
              LET eid == current_exam[b]
                  ex == exam_history'[b][eid]
                  stored == load_exam_history(history_file')
              IN  /\ ~exam_history[b][eid].completed
                  /\ ex.completed
                  /\ ex.score # None
                  /\ eid \in DOMAIN stored
                  /\ stored[eid].completed
                  /\ stored[eid].score = ex.score
                  /\ history_file' = save_exam_history(exam_history'[b])]_vars
    /\ \A b \in User : \A eid \in 1..MaxExams :
          (eid \in DOMAIN exam_history[b] /\ ~exam_history[b][eid].completed)
          ~> (eid \in DOMAIN exam_history[b] /\ exam_history[b][eid].completed)

\* C23 witness: an exam that was in progress when the process restarted is
\* completed with a score, in memory and in the history file.
C23_Witness ==
    /\ restarts > 0
    /\ \E b \in User : \E eid \in DOMAIN exam_history[b] :
          /\ eid \notin DOMAIN pool_epoch[b]
          /\ exam_history[b][eid].completed
          /\ exam_history[b][eid].score # None
          /\ \E ex \in StoredSessions : ex.exam_id = eid /\ ex.completed
          /\ history_file = save_exam_history(exam_history[b])

\* C24: a loaded session's used pool changes only when an exam is started: it
\* gets the identifiers of the new paper, and it is emptied exactly when that
\* leaves no question of the catalog unused; a page load takes the pool of
\* the file, emptied if it leaves no question unused; the file holds the pool
\* after every change.
C24_PoolChanges ==
    [][\A b \in User :
          LET old == used_question_ids[b]
              new == used_question_ids'[b]
              from_file == load_used_question_ids(used_file)
          IN  /\ \A eid \in DOMAIN exam_history'[b] :
                    Started(b, eid)
                    => /\ LET added == old \cup Ids(exam_history'[b][eid].questions)
                          IN  IF Remaining(added) = <<>> THEN new = {} ELSE new = added
                       /\ load_used_question_ids(used_file') = new
              /\ (loaded[b] /\ loaded'[b] /\ DOMAIN exam_history'[b] = DOMAIN exam_history[b])
                 => new = old
              /\ (~loaded[b] /\ loaded'[b])
                 => /\ new = IF Remaining(from_file) = <<>> THEN {} ELSE from_file
                    /\ new # from_file => load_used_question_ids(used_file') = new]_vars

\* C24 witness: the pool grew with a first paper and was emptied, in memory
\* and in the file, when the second paper used up the catalog.
C24_Witness ==
    \E b \in User :
        /\ Len(all_questions) > ExamSize
        /\ Cardinality(DOMAIN exam_history[b]) = 2
        /\ resets[b] > 0
        /\ used_question_ids[b] = {}
        /\ used_file = save_used_question_ids({})

\* C25: in one browser session the history's keys are Exam_1..Exam_n, in
\* memory and in the file, each entry carrying its key; Start New Practice
\* Test adds the key n+1 and leaves the n entries as they are; the history
\* loaded after a restart has the keys of the file.
C25_DenseExamIds ==
    [][\A b \in User :
          LET history == exam_history'[b]
              stored == load_exam_history(history_file)
              stored_after == load_exam_history(history_file')
          IN  /\ loaded'[b]
                 => /\ DOMAIN history = 1..Cardinality(DOMAIN history)
                    /\ \A eid \in DOMAIN history : history[eid].exam_id = eid
                    /\ DOMAIN stored_after = DOMAIN history
              /\ (~loaded[b] /\ loaded'[b]) => DOMAIN history = DOMAIN stored
              /\ StartExam(b)
                 => LET n == Cardinality(DOMAIN exam_history[b])
                    IN  /\ DOMAIN history = 1..(n + 1)
                        /\ \A eid \in 1..n : history[eid] = exam_history[b][eid]
                        /\ DOMAIN stored = 1..n
                        /\ \A eid \in 1..n :
                              stored_after[eid].questions = stored[eid].questions]_vars

\* C25 witness: Exam_2 was created after a restart that reloaded Exam_1.
C25_Witness ==
    \E b \in User :
        /\ restarts > 0
        /\ DOMAIN pool_epoch[b] = {2}
        /\ DOMAIN exam_history[b] = {1, 2}
        /\ DOMAIN load_exam_history(history_file) = {1, 2}

\* A widget of the exam shown by app_2.0.py is used: answer, navigate, submit.
OnCurrentExam(b) ==
    \/ \E key \in Letters : AnswerSingle(b, key)
    \/ \E sel \in Selections(<<"A", "B">>) : SubmitAnswer(b, sel)
    \/ Previous(b)
    \/ NextQuestion(b)
    \/ \E q_num \in 1..ExamSize : QuestionMap(b, q_num)
    \/ SubmitExam(b)

\* A widget of a part of app.py is used: answer, flag, navigate, submit,
\* retake.
OnPart(part_name) ==
    \/ \E key \in Letters : SelectRadio(part_name, key)
    \/ \E key \in Letters : ToggleCheckbox(part_name, key)
    \/ ToggleFlag(part_name)
    \/ PartPrevious(part_name)
    \/ PartNext(part_name)
    \/ \E q_num \in 1..MaxQueryNumber : PartQuestionMap(part_name, q_num)
    \/ \E fq \in 1..MaxQueryNumber : GoToFlagged(part_name, fq)
    \/ PartSubmitExam(part_name)
    \/ RetakeExam(part_name)

\* C26: using a widget of the exam shown by app_2.0.py leaves every other
\* exam of the history as it is, and using a widget of a part of app.py
\* leaves the session of every other part as it is.
C26_SessionsIsolated ==
    [][/\ \A b \in User :
            OnCurrentExam(b)
            => \A eid \in DOMAIN exam_history[b] \ {current_exam[b]} :
                  /\ eid \in DOMAIN exam_history'[b]
                  /\ exam_history'[b][eid] = exam_history[b][eid]
       /\ \A part_name \in PartNames :
            OnPart(part_name)
            => \A other \in DOMAIN session_state \ {part_name} :
                  /\ other \in DOMAIN session_state'
                  /\ session_state'[other] = session_state[other]]_vars

\* C26 witness, app_2.0.py: one exam of the history is completed, another has
\* an answer and is in progress.
C26_Witness ==
    \/ \E b \in User : \E e1, e2 \in DOMAIN exam_history[b] :
          /\ exam_history[b][e1].completed
          /\ ~exam_history[b][e2].completed
          /\ exam_history[b][e2].answered_questions # {}
    \/ \E p1, p2 \in DOMAIN session_state :
          /\ session_state[p1].show_results
          /\ ~session_state[p2].show_results
          /\ session_state[p2].flagged # {}

\* C27: in every session started in the running process, a position is in
\* answered_questions exactly when it is a key of the ledger, the keys are
\* positions of the paper, and an entry holds option letters of the question
\* at its position only; an answer marks its position answered, correct or
\* not.
C27_LedgerMatchesAnswered ==
    /\ [](\A b \in User : \A eid \in DOMAIN pool_epoch[b] \cap DOMAIN exam_history[b] :
            LET ex == exam_history[b][eid]
                positions == 1..Len(ex.questions)
            IN  /\ ex.answered_questions \subseteq positions
                /\ DOMAIN ex.answers = {IntKey(p) : p \in ex.answered_questions}
                /\ \A p \in ex.answered_questions :
                      Range(ex.answers[IntKey(p)]) \subseteq Range(ex.questions[p].options))
    /\ [][\A b \in User :
            (\/ \E key \in Letters : AnswerSingle(b, key)
             \/ \E sel \in Selections(<<"A", "B">>) : SubmitAnswer(b, sel))
            => LET p == QuestionNumber(Exam(b))
                   ex == exam_history'[b][current_exam[b]]
               IN  /\ p \in ex.answered_questions
                   /\ IntKey(p) \in DOMAIN ex.answers]_vars

\* C27 witness: a session of the running process holds a wrong answer and a
\* right one, both positions answered.
C27_Witness ==
    \E b \in User : \E eid \in DOMAIN pool_epoch[b] \cap DOMAIN exam_history[b] :
        LET ex == exam_history[b][eid]
        IN  \E p, q \in ex.answered_questions :
                /\ ~GradedCorrect(ex, p)
                /\ ex.answers[IntKey(p)] # <<>>
                /\ GradedCorrect(ex, q)

\* C29: in a running process no step changes or removes an entry the ledger
\* of a session holds: an entry is written once.
C29_LedgerWriteOnce ==
    [][\A b \in User :
          (loaded[b] /\ loaded'[b])
          => \A eid \in Kept(b) :
                \A k \in DOMAIN exam_history[b][eid].answers :
                    /\ k \in DOMAIN exam_history'[b][eid].answers
                    /\ exam_history'[b][eid].answers[k] = exam_history[b][eid].answers[k]]_vars

\* C29 witness: an exam in progress shows a position that has its entry, and
\* the other position of the paper has none.
C29_Witness ==
    \E b \in User :
        /\ Showing(b)
        /\ ~Exam(b).completed
        /\ Len(Exam(b).questions) = 2
        /\ Answered(Exam(b), QuestionNumber(Exam(b)))
        /\ Cardinality(DOMAIN Exam(b).answers) = 1

\* C28: when an exam is graded, the verdict the grading uses for an answered
\* position is the verdict that was shown for the letters submitted there.
C28_VerdictsAgree ==
    [][\A b \in User :
          SubmitExam(b)
          => \A p \in Exam(b).answered_questions :
                ImmediateVerdict(Exam(b).questions[p], Submitted(Exam(b), p))
                  = GradedCorrect(Exam(b), p)]_vars

====
